---- MODULE Spec2Model ----
(***************************************************************************)
(* RifleAxis REST backend: the account store, the password-reset token    *)
(* table and the JWT-protected loadout / ballistic endpoints, as state     *)
(* machines over the database rows the handlers read and write.            *)
(***************************************************************************)
EXTENDS Integers, Sequences, FiniteSets, TLC

VARIABLES
    users,          \* the users table
    reset_tokens,   \* the password_reset_tokens table
    now,            \* datetime.utcnow(), in minutes
    nextUserId,     \* the next fresh users.id
    nextTokenId,    \* the next password_reset_tokens.id
    pending,        \* account requests between their existence check and their commit
    last,           \* the response to the latest account request
    origin,         \* history: per token id, the operation that issued it and for whom
    uses,           \* history: per token id, the successful operations it authorised
    pwLog,          \* history: per user id, the current and the previous password
    rows,           \* the rifles, ammunition, scopes, maintenance and ballistic tables
    nextRowId,      \* the next fresh row id of those tables
    wallet          \* the JWTs the server has handed to clients

authVars == <<users, reset_tokens, now, nextUserId, nextTokenId, pending, last,
              origin, uses, pwLog>>

apiVars == <<rows, nextRowId, wallet>>

vars == <<authVars, apiVars>>

----------------------------------------------------------------------------
(* Bounds of the exploration *)

MaxUsers == 3
MaxTokenRows == 2
MaxRows == 2
MaxPending == 2

----------------------------------------------------------------------------
(* Program constants *)

OTP_EXPIRY_MINUTES == 10
PASSWORD_RESET_EXPIRY_HOURS == 1
MINUTES_PER_HOUR == 60
MIN_PASSWORD_LENGTH == 8
OTP_LENGTH == 4
MIN_NAME_LENGTH == 2
MAX_NAME_LENGTH == 255

----------------------------------------------------------------------------
(* Text: a string is a sequence of one-character strings *)

UpperLetters == <<"A","B","C","D","E","F","G","H","I","J","K","L","M",
                  "N","O","P","Q","R","S","T","U","V","W","X","Y","Z">>
LowerLetters == <<"a","b","c","d","e","f","g","h","i","j","k","l","m",
                  "n","o","p","q","r","s","t","u","v","w","x","y","z">>
Digits == {"0","1","2","3","4","5","6","7","8","9"}
Whitespace == {" ", "\t", "\n", "\r"}
SpecialChars == {"!","@","#","$","%","^","&","*","(",")",",",".","?","\"",":","{","}","|","<",">"}

Range(s) == {s[i] : i \in 1..Len(s)}

IsUpper(c) == c \in Range(UpperLetters)

\* str.lower() on one character
LowerChar(c) ==
    IF IsUpper(c)
    THEN LowerLetters[CHOOSE i \in 1..Len(UpperLetters) : UpperLetters[i] = c]
    ELSE c

\* str.lower()
Lower(s) == [i \in 1..Len(s) |-> LowerChar(s[i])]

RECURSIVE LStrip(_)
LStrip(s) == IF s # <<>> /\ Head(s) \in Whitespace THEN LStrip(Tail(s)) ELSE s

RECURSIVE RStrip(_)
RStrip(s) ==
    IF s # <<>> /\ s[Len(s)] \in Whitespace
    THEN RStrip(SubSeq(s, 1, Len(s) - 1))
    ELSE s

\* str.strip()
Strip(s) == RStrip(LStrip(s))

----------------------------------------------------------------------------
(* Messages *)

MsgInvalidEmail == "The email address is not valid"
MsgEmailRequired == "Email is required"
MsgNameRequired == "Full name is required"
MsgNameShort == "Full name must be at least 2 characters long"
MsgNameLong == "Full name must be less than 255 characters"
MsgPwRequired == "Password is required"
MsgNewPwRequired == "New password is required"
MsgPwShort == "Password must be at least 8 characters long"
MsgPwUpper == "Password must contain at least one uppercase letter"
MsgPwDigit == "Password must contain at least one number"
MsgPwSpecial == "Password must contain at least one special character"
MsgOtpRequired == "OTP is required"
MsgOtpDigits == "OTP must contain only numbers"
MsgOtpLength == "OTP must be 4 digits"
MsgTokenRequired == "Reset token is required"
MsgRegistered == "Email is already registered"
MsgRegisterOk == "Registration successful"
MsgRegisterFailed == "Registration failed"
MsgNoUser == "No user found with this email"
MsgDisabled == "User account has been disabled"
MsgBadPassword == "Incorrect password"
MsgLoginOk == "Login successful"
MsgBadGoogle == "Invalid Google token"
MsgGoogleOk == "Google sign-in successful"
MsgGoogleFailed == "Google sign-in failed"
MsgForgotGeneric == "If an account with this email exists, you will receive a password reset link"
MsgForgotSent == "Password reset code sent to your email"
MsgForgotMailFailed == "Failed to send reset email"
MsgForgotFailed == "Failed to process password reset"
MsgUserNotFound == "User not found"
MsgBadOtp == "Invalid or expired OTP"
MsgOtpOk == "OTP verified successfully"
MsgOtpFailed == "OTP verification failed"
MsgBadResetToken == "Invalid or expired reset token"
MsgResetOk == "Password reset successfully"
MsgNone == ""

----------------------------------------------------------------------------
(* Validators *)

\* email_validator.validate_email as used by validate_email_format: the
\* syntax check (one "@", a non-empty local part, a dotted domain, no
\* whitespace or other character outside the address alphabet)
AddressChars == Range(UpperLetters) \cup Range(LowerLetters) \cup Digits \cup {".", "-", "_", "+"}

AtPositions(e) == {i \in 1..Len(e) : e[i] = "@"}

validate_email_format(e) ==
    LET ats == AtPositions(e) IN
    IF Cardinality(ats) # 1 THEN FALSE
    ELSE LET at == CHOOSE i \in ats : TRUE
             localPart == SubSeq(e, 1, at - 1)
             domain == SubSeq(e, at + 1, Len(e))
         IN /\ localPart # <<>>
            /\ Range(localPart) \subseteq AddressChars
            /\ Len(domain) >= 3
            /\ Range(domain) \subseteq (AddressChars \ {"_", "+"})
            /\ "." \in Range(SubSeq(domain, 2, Len(domain) - 1))
            /\ domain[1] # "." /\ domain[Len(domain)] # "."

\* Validators.validate_password: the error message, MsgNone when valid
validate_password(p) ==
    IF p = <<>> THEN MsgPwRequired
    ELSE IF Len(p) < MIN_PASSWORD_LENGTH THEN MsgPwShort
    ELSE IF ~ \E i \in 1..Len(p) : IsUpper(p[i]) THEN MsgPwUpper
    ELSE IF ~ \E i \in 1..Len(p) : p[i] \in Digits THEN MsgPwDigit
    ELSE IF ~ \E i \in 1..Len(p) : p[i] \in SpecialChars THEN MsgPwSpecial
    ELSE MsgNone

\* Validators.validate_full_name
validate_full_name(n) ==
    IF n = <<>> \/ Strip(n) = <<>> THEN MsgNameRequired
    ELSE IF Len(Strip(n)) < MIN_NAME_LENGTH THEN MsgNameShort
    ELSE IF Len(Strip(n)) > MAX_NAME_LENGTH THEN MsgNameLong
    ELSE MsgNone

\* Validators.validate_otp
validate_otp(o) ==
    IF o = <<>> THEN MsgOtpRequired
    ELSE IF ~ (Range(o) \subseteq Digits) THEN MsgOtpDigits
    ELSE IF Len(o) # OTP_LENGTH THEN MsgOtpLength
    ELSE MsgNone

----------------------------------------------------------------------------
(* Input values *)

EmailA == <<"a","@","x",".","y">>
EmailAUpper == <<"A","@","X",".","y">>
EmailAPadded == <<" ","a","@","x",".","y"," ">>
EmailB == <<"b","@","x",".","y">>
EmailBad == <<"a","x",".","y">>
EmailInputs == {EmailA, EmailAUpper, EmailAPadded, EmailB, EmailBad, <<>>}

PwOne == <<"P","a","s","s","w","0","r","d","!">>
PwTwo == <<"Z","e","r","0","#","R","i","f","l","e">>
PwWeak == <<"r","i","f","l","e">>
PasswordInputs == {PwOne, PwTwo, PwWeak, <<>>}

NameOk == <<"A","l"," ">>
NameBlank == <<" ">>
NameInputs == {NameOk, NameBlank}

\* secrets.choice over string.digits, four times: the codes the exploration draws
OtpSpace == {<<"1","2","3","4">>, <<"5","6","7","8">>}
OtpInputs == OtpSpace \cup {<<"1","2","x">>}

\* secrets.token_urlsafe(32), abbreviated: never four digits
ResetTokenSpace == {<<"k","Q","_","7","x">>, <<"w","-","3","Z","b">>}
TokenInputs == OtpSpace \cup ResetTokenSpace

Salts == {"s1"}

\* what Google's verification yields for the ID tokens the exploration presents
GoogleTokens ==
    { [valid |-> TRUE, sub |-> "g1", email |-> EmailB],
      [valid |-> TRUE, sub |-> "g2", email |-> EmailAUpper],
      [valid |-> FALSE, sub |-> "", email |-> <<>>] }

\* the instants (minutes) at which requests arrive
ClockInstants == {0, 10, 60}

----------------------------------------------------------------------------
(* Rows *)

NoHash == [salt |-> "", digest |-> <<>>]
NoGoogleId == ""

NoUser == [id |-> 0, email |-> <<>>, password_hash |-> NoHash,
           google_id |-> NoGoogleId, is_active |-> FALSE]

NoToken == [id |-> 0, user_id |-> 0, token |-> <<>>, expires_at |-> 0, used |-> FALSE,
            created_at |-> 0]

\* werkzeug.security: a salted digest, recomputed on check
Digest(salt, password) == <<salt>> \o password

generate_password_hash(password, salt) ==
    [salt |-> salt, digest |-> Digest(salt, password)]

check_password_hash(hash, password) == hash.digest = Digest(hash.salt, password)

\* variant: a hash, once set, is never replaced
set_password_once(user, password, salt) ==
    IF password # <<>> /\ user.password_hash = NoHash
    THEN [user EXCEPT !.password_hash = generate_password_hash(password, salt)]
    ELSE user

\* User.set_password
set_password(user, password, salt) ==
    IF password # <<>>
    THEN [user EXCEPT !.password_hash = generate_password_hash(password, salt)]
    ELSE user

\* variant: an account without a hash accepts any password
check_password_nohash(user, password) ==
    IF user.password_hash = NoHash THEN TRUE
    ELSE check_password_hash(user.password_hash, password)

\* User.check_password
check_password(user, password) ==
    IF user.password_hash = NoHash THEN FALSE
    ELSE check_password_hash(user.password_hash, password)

\* variant: the address is stored as typed, without lower()
NewUser_raw(id, email, password, google_id, salt) ==
    set_password([id |-> id, email |-> Strip(email), password_hash |-> NoHash,
                  google_id |-> google_id, is_active |-> TRUE],
                 password, salt)

\* User.__init__
NewUser(id, email, password, google_id, salt) ==
    set_password([id |-> id, email |-> Strip(Lower(email)), password_hash |-> NoHash,
                  google_id |-> google_id, is_active |-> TRUE],
                 password, salt)

First(found, none) == IF found = {} THEN none ELSE CHOOSE r \in found : TRUE

\* User.find_by_email
find_by_email(email) ==
    First({u \in users : u.email = Strip(Lower(email))}, NoUser)

\* User.find_by_google_id
find_by_google_id(google_id) ==
    First({u \in users : u.google_id = google_id}, NoUser)

\* the unique constraints of the users table, checked at commit
UserIntegrityError(row) ==
    \E u \in users : u.id # row.id /\
        (u.email = row.email \/ (row.google_id # NoGoogleId /\ u.google_id = row.google_id))

\* the unique constraint on password_reset_tokens.token
TokenIntegrityError(table, token) == \E r \in table : r.token = token

\* PasswordResetToken.__init__
NewToken(id, user_id, token, expires_at) ==
    [id |-> id, user_id |-> user_id, token |-> token, expires_at |-> expires_at, used |-> FALSE,
     created_at |-> now]

\* variant: the row is left unused
mark_as_used_noop(table, row) == table

\* PasswordResetToken.mark_as_used
mark_as_used(table, row) ==
    (table \ {row}) \cup {[row EXCEPT !.used = TRUE]}

\* AuthService._cleanup_expired_tokens
cleanup_expired_tokens(table, user_id) ==
    {r \in table : ~ (r.user_id = user_id /\ r.expires_at < now)}

\* AuthService.cleanup_all_expired_tokens
cleanup_all_expired_tokens(table) == {r \in table : ~ (r.expires_at < now)}

\* variant: a code is still good in the minute it expires
verify_otp_query_inclusive(user_id, otp) ==
    First({r \in reset_tokens :
             r.user_id = user_id /\ r.token = otp /\ r.used = FALSE /\ r.expires_at >= now},
          NoToken)

\* the token lookup of AuthService.verify_otp
verify_otp_query(user_id, otp) ==
    First({r \in reset_tokens :
             r.user_id = user_id /\ r.token = otp /\ r.used = FALSE /\ r.expires_at > now},
          NoToken)

\* variant: a token is still good in the minute it expires
reset_password_query_inclusive(user_id, reset_token) ==
    First({r \in reset_tokens :
             r.user_id = user_id /\ r.token = reset_token /\ r.used = FALSE
             /\ r.expires_at >= now},
          NoToken)

\* the token lookup of AuthService.reset_password
reset_password_query(user_id, reset_token) ==
    First({r \in reset_tokens :
             r.user_id = user_id /\ r.token = reset_token /\ r.used = FALSE
             /\ r.expires_at > now},
          NoToken)

----------------------------------------------------------------------------
(* JSON web tokens *)

JWT_ACCESS_TOKEN_EXPIRES_HOURS == 24
JWT_REFRESH_TOKEN_EXPIRES_DAYS == 30
HOURS_PER_DAY == 24

\* flask_jwt_extended.create_access_token
create_access_token(identity) ==
    [type |-> "access", sub |-> identity, signed |-> TRUE,
     exp |-> now + JWT_ACCESS_TOKEN_EXPIRES_HOURS * MINUTES_PER_HOUR]

\* flask_jwt_extended.create_refresh_token
create_refresh_token(identity) ==
    [type |-> "refresh", sub |-> identity, signed |-> TRUE,
     exp |-> now + JWT_REFRESH_TOKEN_EXPIRES_DAYS * HOURS_PER_DAY * MINUTES_PER_HOUR]

\* JWTUtils.generate_tokens
generate_tokens(user_id) == {create_access_token(user_id), create_refresh_token(user_id)}

----------------------------------------------------------------------------
(* Responses *)

StatusOk == 200
StatusError == 400
StatusUnauthorized == 401
StatusValidation == 422

\* ApiResponse.success / error / validation_error, with the row the request
\* acted on (a user id or a token id, 0 for none) and the JWTs it returned
Response(op, status, msg, row, jwts) ==
    [op |-> op, ok |-> (status = StatusOk), status |-> status, msg |-> msg,
     row |-> row, jwts |-> jwts]

NoResponse == Response("none", StatusOk, MsgNone, 0, {})

----------------------------------------------------------------------------
(* State after construction: empty tables *)

Init ==
    /\ users = {}
    /\ reset_tokens = {}
    /\ now = 0
    /\ nextUserId = 1
    /\ nextTokenId = 1
    /\ pending = {}
    /\ last = NoResponse
    /\ origin = <<>>
    /\ uses = <<>>
    /\ pwLog = <<>>
    /\ rows = {}
    /\ nextRowId = 1
    /\ wallet = {}

FreeSlot == CHOOSE i \in 1..(MaxPending + 1) : \A p \in pending : p.slot # i

PasswordEntry(current, previous, byReset) ==
    [current |-> current, previous |-> previous, byReset |-> byReset]

----------------------------------------------------------------------------
(* POST /api/auth/signup *)

\* AuthViewModel.handle_user_registration and AuthService.register_user up to
\* the existence check: the refusal, or status 200 to go on
register_user_check(full_name, email, password) ==
    LET n == Strip(full_name)
        e == Strip(email)
        R(status, msg) == Response("signup", status, msg, 0, {})
    IN  IF n = <<>> THEN R(StatusValidation, MsgNameRequired)
        ELSE IF e = <<>> THEN R(StatusValidation, MsgEmailRequired)
        ELSE IF password = <<>> THEN R(StatusValidation, MsgPwRequired)
        ELSE IF validate_full_name(n) # MsgNone THEN R(StatusError, validate_full_name(n))
        ELSE IF ~ validate_email_format(e) THEN R(StatusError, MsgInvalidEmail)
        ELSE IF validate_password(password) # MsgNone
             THEN R(StatusError, validate_password(password))
        ELSE IF find_by_email(e) # NoUser THEN R(StatusError, MsgRegistered)
        ELSE R(StatusOk, MsgNone)

\* the request up to and including User.find_by_email
signup_begin(full_name, email, password) ==
    \E r \in {register_user_check(full_name, email, password)} :
    /\ IF r.ok
       THEN /\ Cardinality(pending) < MaxPending
            /\ pending' = pending \cup
                    {[slot |-> FreeSlot, kind |-> "signup", email |-> Strip(email),
                      password |-> password, sub |-> NoGoogleId]}
            /\ last' = Response("signup_begin", StatusOk, MsgNone, 0, {})
       ELSE /\ pending' = pending
            /\ last' = r
    /\ UNCHANGED <<users, reset_tokens, now, nextUserId, nextTokenId, origin, uses, pwLog>>

\* the rest of register_user: User(...), user.save(), the tokens
signup_commit(p, salt) ==
    LET user == NewUser(nextUserId, p.email, p.password, NoGoogleId, salt) IN
    /\ p \in pending /\ p.kind = "signup"
    /\ pending' = pending \ {p}
    /\ IF UserIntegrityError(user)
       THEN /\ last' = Response("signup", StatusError, MsgRegisterFailed, 0, {})
            /\ UNCHANGED <<users, nextUserId, pwLog>>
       ELSE /\ nextUserId <= MaxUsers
            /\ users' = users \cup {user}
            /\ nextUserId' = nextUserId + 1
            /\ pwLog' = Append(pwLog, PasswordEntry(p.password, <<>>, FALSE))
            /\ last' = Response("signup", StatusOk, MsgRegisterOk, user.id,
                                generate_tokens(user.id))
    /\ UNCHANGED <<reset_tokens, now, nextTokenId, origin, uses>>

----------------------------------------------------------------------------
(* POST /api/auth/login *)

\* AuthViewModel.handle_user_login and AuthService.login_user
login_user(email, password) ==
    LET e == Strip(email)
        user == find_by_email(e)
        R(status, msg, row, jwts) == Response("login", status, msg, row, jwts)
    IN  IF e = <<>> THEN R(StatusValidation, MsgEmailRequired, 0, {})
        ELSE IF password = <<>> THEN R(StatusValidation, MsgPwRequired, 0, {})
        ELSE IF ~ validate_email_format(e) THEN R(StatusError, MsgInvalidEmail, 0, {})
        ELSE IF user = NoUser THEN R(StatusError, MsgNoUser, 0, {})
        ELSE IF ~ user.is_active THEN R(StatusError, MsgDisabled, 0, {})
        ELSE IF ~ check_password(user, password) THEN R(StatusError, MsgBadPassword, 0, {})
        ELSE R(StatusOk, MsgLoginOk, user.id, generate_tokens(user.id))

login(email, password) ==
    /\ last' = login_user(email, password)
    /\ UNCHANGED <<users, reset_tokens, now, nextUserId, nextTokenId, pending, origin, uses,
                   pwLog>>

----------------------------------------------------------------------------
(* POST /api/auth/google-signin *)

\* AuthService.google_signin up to the lookups; an account found by its Google
\* id or by its email is signed in (and linked) at once
google_begin(g) ==
    LET byId == find_by_google_id(g.sub)
        byEmail == find_by_email(g.email)
        linked == [byEmail EXCEPT !.google_id = g.sub]
        user == IF byId # NoUser THEN byId ELSE linked
        R(status, msg, row, jwts) == Response("google_signin", status, msg, row, jwts)
    IN  /\ IF ~ g.valid
           THEN /\ last' = R(StatusError, MsgBadGoogle, 0, {})
                /\ UNCHANGED <<users, pending>>
           ELSE IF byId = NoUser /\ byEmail = NoUser
           THEN /\ Cardinality(pending) < MaxPending
                /\ pending' = pending \cup
                        {[slot |-> FreeSlot, kind |-> "google", email |-> g.email,
                          password |-> <<>>, sub |-> g.sub]}
                /\ last' = Response("google_begin", StatusOk, MsgNone, 0, {})
                /\ UNCHANGED users
           ELSE /\ users' = IF byId # NoUser THEN users
                            ELSE (users \ {byEmail}) \cup {linked}
                /\ last' = IF user.is_active
                           THEN R(StatusOk, MsgGoogleOk, user.id, generate_tokens(user.id))
                           ELSE R(StatusError, MsgDisabled, 0, {})
                /\ UNCHANGED pending
        /\ UNCHANGED <<reset_tokens, now, nextUserId, nextTokenId, origin, uses, pwLog>>

\* the rest of google_signin for a new account: User(...), user.save(), the tokens
google_commit(p) ==
    LET user == NewUser(nextUserId, p.email, <<>>, p.sub, "") IN
    /\ p \in pending /\ p.kind = "google"
    /\ pending' = pending \ {p}
    /\ IF UserIntegrityError(user)
       THEN /\ last' = Response("google_signin", StatusError, MsgGoogleFailed, 0, {})
            /\ UNCHANGED <<users, nextUserId, pwLog>>
       ELSE /\ nextUserId <= MaxUsers
            /\ users' = users \cup {user}
            /\ nextUserId' = nextUserId + 1
            /\ pwLog' = Append(pwLog, PasswordEntry(<<>>, <<>>, FALSE))
            /\ last' = Response("google_signin", StatusOk, MsgGoogleOk, user.id,
                                generate_tokens(user.id))
    /\ UNCHANGED <<reset_tokens, now, nextTokenId, origin, uses>>

----------------------------------------------------------------------------
(* POST /api/auth/forgot-password *)

Outcome(op, status, msg, row, table, inserted) ==
    [op |-> op, ok |-> (status = StatusOk), status |-> status, msg |-> msg, row |-> row,
     table |-> table, inserted |-> inserted]

\* AuthViewModel.handle_forgot_password and AuthService.forgot_password: the
\* response and the token table it leaves; otp is the code _generate_otp
\* draws, sent is whether the mail went out
forgot_password(email, otp, sent) ==
    LET e == Strip(email)
        user == find_by_email(e)
        cleaned == cleanup_expired_tokens(reset_tokens, user.id)
        row == NewToken(nextTokenId, user.id, otp, now + OTP_EXPIRY_MINUTES)
        R(status, msg, id, table, inserted) ==
            Outcome("forgot_password", status, msg, id, table, inserted)
    IN  IF e = <<>> THEN R(StatusValidation, MsgEmailRequired, 0, reset_tokens, FALSE)
        ELSE IF ~ validate_email_format(e)
             THEN R(StatusError, MsgInvalidEmail, 0, reset_tokens, FALSE)
        ELSE IF user = NoUser THEN R(StatusOk, MsgForgotGeneric, 0, reset_tokens, FALSE)
        ELSE IF ~ user.is_active THEN R(StatusError, MsgDisabled, 0, reset_tokens, FALSE)
        ELSE IF TokenIntegrityError(cleaned, otp)
             THEN R(StatusError, MsgForgotFailed, 0, cleaned, FALSE)
        ELSE IF ~ sent THEN R(StatusError, MsgForgotMailFailed, row.id, cleaned \cup {row}, TRUE)
        ELSE R(StatusOk, MsgForgotSent, row.id, cleaned \cup {row}, TRUE)

forgot(email, otp, sent) ==
    \E r \in {forgot_password(email, otp, sent)} :
    /\ r.inserted => nextTokenId <= MaxTokenRows
    /\ reset_tokens' = r.table
    /\ nextTokenId' = IF r.inserted THEN nextTokenId + 1 ELSE nextTokenId
    /\ origin' = IF r.inserted
                 THEN Append(origin, [kind |-> "otp", user_id |-> find_by_email(email).id])
                 ELSE origin
    /\ uses' = IF r.inserted THEN Append(uses, 0) ELSE uses
    /\ UNCHANGED <<users, now, nextUserId, pending, last, pwLog>>

----------------------------------------------------------------------------
(* POST /api/auth/verify-otp *)

\* AuthViewModel.handle_verify_otp and AuthService.verify_otp: the response
\* (row is the OTP row that matched) and the token table it leaves;
\* reset_token is the value _generate_reset_token draws
verify_otp(email, otp0, reset_token) ==
    LET e == Strip(email)
        otp == Strip(otp0)
        user == find_by_email(e)
        found == verify_otp_query(user.id, otp)
        marked == mark_as_used(reset_tokens, found)
        row == NewToken(nextTokenId, user.id, reset_token,
                        now + PASSWORD_RESET_EXPIRY_HOURS * MINUTES_PER_HOUR)
        R(status, msg, id, table, inserted) ==
            Outcome("verify_otp", status, msg, id, table, inserted)
    IN  IF e = <<>> THEN R(StatusValidation, MsgEmailRequired, 0, reset_tokens, FALSE)
        ELSE IF otp = <<>> THEN R(StatusValidation, MsgOtpRequired, 0, reset_tokens, FALSE)
        ELSE IF ~ validate_email_format(e)
             THEN R(StatusError, MsgInvalidEmail, 0, reset_tokens, FALSE)
        ELSE IF validate_otp(otp) # MsgNone
             THEN R(StatusError, validate_otp(otp), 0, reset_tokens, FALSE)
        ELSE IF user = NoUser THEN R(StatusError, MsgUserNotFound, 0, reset_tokens, FALSE)
        ELSE IF found = NoToken THEN R(StatusError, MsgBadOtp, 0, reset_tokens, FALSE)
        ELSE IF TokenIntegrityError(marked, reset_token)
             THEN R(StatusError, MsgOtpFailed, found.id, marked, FALSE)
        ELSE R(StatusOk, MsgOtpOk, found.id, marked \cup {row}, TRUE)

verify(email, otp, reset_token) ==
    \E r \in {verify_otp(email, otp, reset_token)} :
    /\ r.inserted => nextTokenId <= MaxTokenRows
    /\ reset_tokens' = r.table
    /\ nextTokenId' = IF r.inserted THEN nextTokenId + 1 ELSE nextTokenId
    /\ origin' = IF r.inserted
                 THEN Append(origin, [kind |-> "reset", user_id |-> find_by_email(email).id])
                 ELSE origin
    /\ uses' = IF r.ok THEN Append([uses EXCEPT ![r.row] = @ + 1], 0) ELSE uses
    /\ UNCHANGED <<users, now, nextUserId, pending, last, pwLog>>

----------------------------------------------------------------------------
(* POST /api/auth/reset-password *)

ResetOutcome(status, msg, row, table, accounts, user_id) ==
    [op |-> "reset_password", ok |-> (status = StatusOk), status |-> status, msg |-> msg,
     row |-> row, table |-> table, accounts |-> accounts, user_id |-> user_id]

\* AuthViewModel.handle_reset_password and AuthService.reset_password: the
\* response (row is the token row that matched) and the tables it leaves
reset_password(email, reset_token0, new_password, salt) ==
    LET e == Strip(email)
        reset_token == Strip(reset_token0)
        user == find_by_email(e)
        token_record == reset_password_query(user.id, reset_token)
        changed == set_password(user, new_password, salt)
        R(status, msg) == ResetOutcome(status, msg, 0, reset_tokens, users, 0)
    IN  IF e = <<>> THEN R(StatusValidation, MsgEmailRequired)
        ELSE IF reset_token = <<>> THEN R(StatusValidation, MsgTokenRequired)
        ELSE IF new_password = <<>> THEN R(StatusValidation, MsgNewPwRequired)
        ELSE IF ~ validate_email_format(e) THEN R(StatusError, MsgInvalidEmail)
        ELSE IF validate_password(new_password) # MsgNone
             THEN R(StatusError, validate_password(new_password))
        ELSE IF user = NoUser THEN R(StatusError, MsgUserNotFound)
        ELSE IF token_record = NoToken THEN R(StatusError, MsgBadResetToken)
        ELSE ResetOutcome(StatusOk, MsgResetOk, token_record.id,
                 cleanup_expired_tokens(mark_as_used(reset_tokens, token_record), user.id),
                 (users \ {user}) \cup {changed}, user.id)

reset(email, reset_token, new_password, salt) ==
    \E r \in {reset_password(email, reset_token, new_password, salt)} :
    /\ users' = r.accounts
    /\ reset_tokens' = r.table
    /\ uses' = IF r.ok THEN [uses EXCEPT ![r.row] = @ + 1] ELSE uses
    /\ pwLog' = IF r.ok
                THEN [pwLog EXCEPT ![r.user_id] =
                        PasswordEntry(new_password, pwLog[r.user_id].current, TRUE)]
                ELSE pwLog
    /\ UNCHANGED <<now, nextUserId, nextTokenId, pending, last, origin>>

----------------------------------------------------------------------------
(* GET /api/cleanup-expired-tokens, and the clock *)

cleanup ==
    /\ reset_tokens' = cleanup_all_expired_tokens(reset_tokens)
    /\ UNCHANGED <<users, now, nextUserId, nextTokenId, pending, last, origin, uses, pwLog>>

Tick(instants, t) ==
    /\ t \in instants
    /\ t > now
    /\ \A i \in instants : i > now => t <= i
    /\ now' = t
    /\ UNCHANGED <<users, reset_tokens, nextUserId, nextTokenId, pending, last, origin, uses,
                   pwLog>>

----------------------------------------------------------------------------
(* Accounts: signup, Google sign-in and login requests, interleaved at the   *)
(* point between the existence check and the commit                          *)

SignupPasswords == {PwOne, PwWeak, <<>>}

Signup ==
    /\ \E n \in NameInputs, e \in EmailInputs, p \in SignupPasswords : signup_begin(n, e, p)
    /\ UNCHANGED apiVars
SignupCommit ==
    /\ \E p \in pending, s \in Salts : signup_commit(p, s)
    /\ UNCHANGED apiVars
Login ==
    /\ \E e \in EmailInputs, p \in PasswordInputs : login(e, p)
    /\ UNCHANGED apiVars
GoogleSignin ==
    /\ \E g \in GoogleTokens : google_begin(g)
    /\ UNCHANGED apiVars
GoogleCommit ==
    /\ \E p \in pending : google_commit(p)
    /\ UNCHANGED apiVars

Next ==
    \/ Signup
    \/ SignupCommit
    \/ Login
    \/ GoogleSignin
    \/ GoogleCommit

Spec == Init /\ [][Next]_vars

----------------------------------------------------------------------------
(* Password reset: sequential histories (a request runs to completion before *)
(* the next one starts) over one password account and one Google account     *)

ResetEmails == {EmailA, EmailB}
NewPasswords == {PwTwo, PwWeak}

Idle == pending = {}

SeqSignup ==
    /\ Idle /\ signup_begin(NameOk, EmailA, PwOne)
    /\ UNCHANGED apiVars
SeqGoogleSignin ==
    /\ Idle /\ \E g \in {t \in GoogleTokens : t.sub = "g1"} : google_begin(g)
    /\ UNCHANGED apiVars
ForgotPassword ==
    /\ Idle /\ \E e \in ResetEmails, o \in OtpSpace, sent \in BOOLEAN : forgot(e, o, sent)
    /\ UNCHANGED apiVars
VerifyOtp ==
    /\ Idle /\ \E e \in ResetEmails, o \in OtpInputs, t \in ResetTokenSpace : verify(e, o, t)
    /\ UNCHANGED apiVars
ResetPassword ==
    /\ Idle /\ \E e \in ResetEmails, t \in TokenInputs, p \in NewPasswords, s \in Salts :
                  reset(e, t, p, s)
    /\ UNCHANGED apiVars
CleanupExpiredTokens ==
    /\ Idle /\ cleanup
    /\ UNCHANGED apiVars
ClockAuth ==
    /\ Idle /\ \E t \in ClockInstants : Tick(ClockInstants, t)
    /\ UNCHANGED apiVars

NextReset ==
    \/ SeqSignup
    \/ SignupCommit
    \/ SeqGoogleSignin
    \/ GoogleCommit
    \/ ForgotPassword
    \/ VerifyOtp
    \/ ResetPassword
    \/ CleanupExpiredTokens
    \/ ClockAuth

SpecReset == Init /\ [][NextReset]_vars

----------------------------------------------------------------------------
(* Loadout and ballistic tables (app/models/loadout.py, app/models/ballistic.py) *)

LoadoutKinds == {"rifle", "ammunition", "scope", "maintenance"}
BallisticKinds == {"dope", "zero", "chronograph", "calculation"}

\* the tables with a rifle_id column
RifleChildren == {"maintenance"} \cup BallisticKinds

\* a JSON value of a request body or a column value: null, or a number held in
\* tenths (1005 is 100.5), or for trajectoryData an array of points
Null == [null |-> TRUE, v |-> 0]
Number(tenths) == [null |-> FALSE, v |-> tenths]
NullJson == [null |-> TRUE, v |-> <<>>]
Json(points) == [null |-> FALSE, v |-> points]

\* the parameter columns of ballistic_calculations, all null
NoParams == [ballistic_coefficient |-> Null, muzzle_velocity |-> Null,
             target_distance |-> Null, wind_speed |-> Null, wind_direction |-> Null,
             trajectory_data |-> NullJson]

NoRow == [kind |-> "", id |-> 0, user_id |-> 0, rifle_id |-> 0, scope_id |-> 0,
          ammunition_id |-> 0, is_active |-> FALSE, last_completed |-> FALSE, notes |-> "",
          params |-> NoParams]

\* Rifle.__init__, Ammunition.__init__, ..., BallisticCalculation.__init__
NewRow(kind, id, user_id, rifle_id, notes) ==
    [NoRow EXCEPT !.kind = kind, !.id = id, !.user_id = user_id, !.rifle_id = rifle_id,
                  !.notes = notes]

\* variant: every row of the table, whoever owns it
find_by_user_id_any(table, kind, user_id) == {r \in table : r.kind = kind}

\* <Model>.find_by_user_id
find_by_user_id(table, kind, user_id) ==
    {r \in table : r.kind = kind /\ r.user_id = user_id}

\* <Model>.find_by_id
find_by_id(table, kind, id) == First({r \in table : r.kind = kind /\ r.id = id}, NoRow)

\* <Model>.find_by_rifle_id
find_by_rifle_id(table, kind, rifle_id) ==
    {r \in table : r.kind = kind /\ r.rifle_id = rifle_id}

\* <Model>.to_dict: the rows whose columns go into the JSON; a rifle carries the
\* scope and the ammunition it is associated with
to_dict(table, row) ==
    IF row.kind = "rifle"
    THEN {row} \cup ({find_by_id(table, "scope", row.scope_id),
                      find_by_id(table, "ammunition", row.ammunition_id)} \ {NoRow})
    ELSE {row}

Serialise(table, found) == UNION {to_dict(table, r) : r \in found}

\* the foreign keys rifles.scope_id, rifles.ammunition_id and <child>.rifle_id:
\* a row that another row points to cannot be deleted
Referenced(table, row) ==
    \E r \in table :
        \/ row.kind = "rifle" /\ r.kind \in {"maintenance", "dope", "zero", "chronograph",
                                               "calculation"} /\ r.rifle_id = row.id
        \/ row.kind = "scope" /\ r.kind = "rifle" /\ r.scope_id = row.id
        \/ row.kind = "ammunition" /\ r.kind = "rifle" /\ r.ammunition_id = row.id

\* Maintenance.complete_maintenance
complete_maintenance(row) == [row EXCEPT !.last_completed = TRUE]

\* variant: the wind columns are filled the wrong way round
BallisticCalculation_crossed(id, user_id, rifle_id, notes, data) ==
    [NewRow("calculation", id, user_id, rifle_id, notes) EXCEPT
        !.params = [ballistic_coefficient |-> data.ballisticCoefficient,
                    muzzle_velocity |-> data.muzzleVelocity,
                    target_distance |-> data.targetDistance,
                    wind_speed |-> data.windDirection,
                    wind_direction |-> data.windSpeed,
                    trajectory_data |-> data.trajectoryData]]

\* BallisticCalculation.__init__ on the fields of the request body
BallisticCalculation(id, user_id, rifle_id, notes, data) ==
    [NewRow("calculation", id, user_id, rifle_id, notes) EXCEPT
        !.params = [ballistic_coefficient |-> data.ballisticCoefficient,
                    muzzle_velocity |-> data.muzzleVelocity,
                    target_distance |-> data.targetDistance,
                    wind_speed |-> data.windSpeed,
                    wind_direction |-> data.windDirection,
                    trajectory_data |-> data.trajectoryData]]

\* Column(Float): a double precision column returns the number it was given
Float(x) == x

\* Column(Integer): a number with a fraction is rounded to the nearest whole
\* number on its way into an integer column, a half away from zero
Integer(x) ==
    IF x.null THEN x
    ELSE IF x.v >= 0 THEN Number(((x.v + 5) \div 10) * 10)
    ELSE Number(0 - ((((0 - x.v) + 5) \div 10) * 10))

\* Column(JSON): json.dumps on the way in, json.loads on the way out; on a
\* value that came out of a JSON body this returns an equal value
JSON(x) == x

\* the row as the table holds it after BallisticCalculation.save, which the
\* session reads back once the commit has expired the object
stored_calculation(row) ==
    [row EXCEPT !.params =
        [ballistic_coefficient |-> Float(row.params.ballistic_coefficient),
         muzzle_velocity |-> Float(row.params.muzzle_velocity),
         target_distance |-> Integer(row.params.target_distance),
         wind_speed |-> Float(row.params.wind_speed),
         wind_direction |-> Float(row.params.wind_direction),
         trajectory_data |-> JSON(row.params.trajectory_data)]]

\* nullable=False on the parameter columns
NotNullViolation(row) ==
    \/ row.params.ballistic_coefficient.null \/ row.params.muzzle_velocity.null
    \/ row.params.target_distance.null \/ row.params.wind_speed.null
    \/ row.params.wind_direction.null \/ row.params.trajectory_data.null

\* BallisticCalculation.to_dict: the parameter entries of the dictionary
calculation_to_dict(row) ==
    [ballisticCoefficient |-> row.params.ballistic_coefficient,
     muzzleVelocity |-> row.params.muzzle_velocity,
     targetDistance |-> row.params.target_distance,
     windSpeed |-> row.params.wind_speed,
     windDirection |-> row.params.wind_direction,
     trajectoryData |-> row.params.trajectory_data]

----------------------------------------------------------------------------
(* LoadoutService and BallisticService *)

Result(ok, returned, table, inserted) ==
    [ok |-> ok, returned |-> returned, table |-> table, inserted |-> inserted]

Failure == Result(FALSE, {}, rows, FALSE)

Owned(row, user_id) == row # NoRow /\ row.user_id = user_id

\* get_rifles, get_ammunition, get_scopes, get_maintenance, get_dope_entries,
\* get_zero_entries, get_chronograph_data, get_ballistic_calculations
service_get_all(kind, user_id, rifle_id) ==
    LET found == IF rifle_id = 0
                 THEN find_by_user_id(rows, kind, user_id)
                 ELSE find_by_rifle_id(rows, kind, rifle_id) \cap
                      find_by_user_id(rows, kind, user_id)
    IN  Result(TRUE, Serialise(rows, found), rows, FALSE)

\* get_rifle
service_get(kind, id, user_id) ==
    LET row == find_by_id(rows, kind, id)
    IN  IF Owned(row, user_id) THEN Result(TRUE, to_dict(rows, row), rows, FALSE)
        ELSE Failure

\* create_rifle, create_ammunition, create_scope, create_maintenance,
\* create_dope_entry, create_zero_entry, create_chronograph_data, calculate_ballistics
service_create(kind, user_id, rifle_id, notes) ==
    LET row == NewRow(kind, nextRowId, user_id, rifle_id, notes)
        table == rows \cup {row}
    IN  IF kind \in RifleChildren /\ ~ Owned(find_by_id(rows, "rifle", rifle_id), user_id)
        THEN Failure
        ELSE Result(TRUE, to_dict(table, row), table, TRUE)

\* calculate_ballistics: the row is built from the request body and saved
service_calculate(user_id, rifle_id, notes, data) ==
    LET row == BallisticCalculation(nextRowId, user_id, rifle_id, notes, data)
        saved == stored_calculation(row)
        table == rows \cup {saved}
    IN  IF ~ Owned(find_by_id(rows, "rifle", rifle_id), user_id) THEN Failure
        ELSE IF NotNullViolation(row) THEN Failure
        ELSE Result(TRUE, to_dict(table, saved), table, TRUE)

\* update_rifle, update_ammunition, update_scope
service_update(kind, id, user_id, notes) ==
    LET row == find_by_id(rows, kind, id)
        changed == [row EXCEPT !.notes = notes]
        table == (rows \ {row}) \cup {changed}
    IN  IF Owned(row, user_id) THEN Result(TRUE, to_dict(table, changed), table, FALSE)
        ELSE Failure

\* delete_rifle, delete_ammunition, delete_scope, delete_maintenance,
\* delete_dope_entry, delete_zero_entry, delete_chronograph_data,
\* delete_ballistic_calculation
service_delete(kind, id, user_id) ==
    LET row == find_by_id(rows, kind, id)
    IN  IF Owned(row, user_id) /\ ~ Referenced(rows, row)
        THEN Result(TRUE, {}, rows \ {row}, FALSE)
        ELSE Failure

\* set_active_rifle
service_set_active(rifle_id, user_id) ==
    LET row == find_by_id(rows, "rifle", rifle_id)
        mine == find_by_user_id(rows, "rifle", user_id)
    IN  IF Owned(row, user_id)
        THEN Result(TRUE, {},
                    (rows \ mine) \cup {[r EXCEPT !.is_active = (r.id = rifle_id)] : r \in mine},
                    FALSE)
        ELSE Failure

\* update_rifle_scope, update_rifle_ammunition
service_associate(kind, rifle_id, user_id, id) ==
    LET rifle == find_by_id(rows, "rifle", rifle_id)
        changed == IF kind = "scope" THEN [rifle EXCEPT !.scope_id = id]
                   ELSE [rifle EXCEPT !.ammunition_id = id]
    IN  IF Owned(rifle, user_id) /\ (id = 0 \/ Owned(find_by_id(rows, kind, id), user_id))
        THEN Result(TRUE, {}, (rows \ {rifle}) \cup {changed}, FALSE)
        ELSE Failure

\* complete_maintenance
service_complete(id, user_id) ==
    LET row == find_by_id(rows, "maintenance", id)
    IN  IF Owned(row, user_id)
        THEN Result(TRUE, {}, (rows \ {row}) \cup {complete_maintenance(row)}, FALSE)
        ELSE Failure

\* get_ballistic_data_summary
service_rifle_summary(user_id, rifle_id) ==
    IF Owned(find_by_id(rows, "rifle", rifle_id), user_id)
    THEN Result(TRUE,
                UNION {service_get_all(k, user_id, rifle_id).returned : k \in BallisticKinds},
                rows, FALSE)
    ELSE Failure

----------------------------------------------------------------------------
(* The endpoints of /api/loadout and /api/ballistic *)

MsgJwtExpired == "Token has expired"
MsgJwtInvalid == "Invalid token"
MsgJwtMissing == "Authorization token is required"

NoJwt == [type |-> "none", sub |-> 0, signed |-> FALSE, exp |-> 0]

\* variant: the expiry of a token is not looked at
jwt_required_lenient(token) ==
    IF token = NoJwt THEN MsgJwtMissing
    ELSE IF ~ token.signed THEN MsgJwtInvalid
    ELSE IF token.type # "access" THEN MsgJwtInvalid
    ELSE MsgNone

\* @jwt_required() with the loaders of create_app: the message of the 401, or
\* none when the request carries a signed, unexpired access token
jwt_required(token) ==
    IF token = NoJwt THEN MsgJwtMissing
    ELSE IF ~ token.signed THEN MsgJwtInvalid
    ELSE IF token.exp <= now THEN MsgJwtExpired
    ELSE IF token.type # "access" THEN MsgJwtInvalid
    ELSE MsgNone

get_jwt_identity(token) == token.sub

Route(fn, op, kind) == [fn |-> fn, op |-> op, kind |-> kind, protected |-> TRUE]
Open(fn) == [fn |-> fn, op |-> "health", kind |-> "", protected |-> FALSE]

\* app/views/loadout.py: the view functions, each with its decorators
LoadoutRoutes ==
    { Route("get_rifles", "list", "rifle"),
      Route("create_rifle", "create", "rifle"),
      Route("get_rifle", "get", "rifle"),
      Route("update_rifle", "update", "rifle"),
      Route("delete_rifle", "delete", "rifle"),
      Route("set_active_rifle", "set_active", "rifle"),
      Route("update_rifle_scope", "associate", "scope"),
      Route("update_rifle_ammunition", "associate", "ammunition"),
      Route("get_ammunition", "list", "ammunition"),
      Route("create_ammunition", "create", "ammunition"),
      Route("update_ammunition", "update", "ammunition"),
      Route("delete_ammunition", "delete", "ammunition"),
      Route("get_scopes", "list", "scope"),
      Route("create_scope", "create", "scope"),
      Route("update_scope", "update", "scope"),
      Route("delete_scope", "delete", "scope"),
      Route("get_maintenance", "list", "maintenance"),
      Route("create_maintenance", "create", "maintenance"),
      Route("complete_maintenance", "complete", "maintenance"),
      Route("delete_maintenance", "delete", "maintenance"),
      Route("get_loadout_summary", "summary", ""),
      Open("loadout_health") }

\* app/views/ballistic.py: the view functions, each with its decorators
BallisticRoutes ==
    { Route("get_dope_entries", "query", "dope"),
      Route("create_dope_entry", "create", "dope"),
      Route("delete_dope_entry", "delete", "dope"),
      Route("get_zero_entries", "query", "zero"),
      Route("create_zero_entry", "create", "zero"),
      Route("delete_zero_entry", "delete", "zero"),
      Route("get_chronograph_data", "query", "chronograph"),
      Route("create_chronograph_data", "create", "chronograph"),
      Route("delete_chronograph_data", "delete", "chronograph"),
      Route("get_ballistic_calculations", "query", "calculation"),
      Route("calculate_ballistics", "calculate", "calculation"),
      Route("delete_ballistic_calculation", "delete", "calculation"),
      Route("get_ballistic_summary", "rifle_summary", ""),
      Route("get_all_ballistic_data", "all_data", ""),
      Open("ballistic_health") }

Routes == LoadoutRoutes \cup BallisticRoutes

\* what a request did: the reply, the tables after it, whether it added a row
Done(status, msg, ran, user_id, returned, table, inserted) ==
    [status |-> status, msg |-> msg, ran |-> ran, user_id |-> user_id,
     returned |-> returned, table |-> table, inserted |-> inserted]

\* LoadoutViewModel / BallisticViewModel: ApiResponse.success or ApiResponse.error
ViewModel(user_id, result) ==
    Done(IF result.ok THEN StatusOk ELSE StatusError, MsgNone, TRUE, user_id,
         result.returned, result.table, result.inserted)

Invalid(user_id) == Done(StatusValidation, MsgNone, TRUE, user_id, {}, rows, FALSE)

\* the body of a calculation request whose numbers the other requests do not vary
PlainCalculation ==
    [ballisticCoefficient |-> Number(5), muzzleVelocity |-> Number(27000),
     targetDistance |-> Number(1000), windSpeed |-> Number(0), windDirection |-> Number(0),
     trajectoryData |-> Json(<<>>)]

\* BallisticViewModel.handle_calculate_ballistics; arg.ref is the rifleId of
\* the body, data its calculation fields
handle_calculate_ballistics(user_id, arg, data) ==
    IF \/ arg.ref = 0
       \/ data.ballisticCoefficient.null \/ data.muzzleVelocity.null
       \/ data.targetDistance.null
    THEN Invalid(user_id)
    ELSE ViewModel(user_id, service_calculate(user_id, arg.ref, arg.notes, data))

\* the body of a view function and the view-model handler it calls; arg.id is
\* the id in the URL (for the ballistic GETs the rifleId query parameter, 0 when
\* absent), arg.ref the id in the JSON body (rifleId, scopeId or ammunitionId)
Handle(route, user_id, arg) ==
    CASE route.op = "list" -> ViewModel(user_id, service_get_all(route.kind, user_id, 0))
      [] route.op = "query" ->
            ViewModel(user_id, service_get_all(route.kind, user_id, arg.id))
      [] route.op = "get" -> ViewModel(user_id, service_get(route.kind, arg.id, user_id))
      [] route.op = "create" ->
            ViewModel(user_id, service_create(route.kind, user_id, arg.ref, arg.notes))
      [] route.op = "calculate" -> handle_calculate_ballistics(user_id, arg, PlainCalculation)
      [] route.op = "update" ->
            ViewModel(user_id, service_update(route.kind, arg.id, user_id, arg.notes))
      [] route.op = "delete" ->
            ViewModel(user_id, service_delete(route.kind, arg.id, user_id))
      [] route.op = "set_active" ->
            IF arg.ref = 0 THEN Invalid(user_id)
            ELSE ViewModel(user_id, service_set_active(arg.ref, user_id))
      [] route.op = "associate" ->
            ViewModel(user_id, service_associate(route.kind, arg.id, user_id, arg.ref))
      [] route.op = "complete" -> ViewModel(user_id, service_complete(arg.id, user_id))
      [] route.op = "summary" ->
            ViewModel(user_id,
                      Result(TRUE,
                             UNION {service_get_all(k, user_id, 0).returned : k \in LoadoutKinds},
                             rows, FALSE))
      [] route.op = "all_data" ->
            ViewModel(user_id,
                      Result(TRUE,
                             UNION {service_get_all(k, user_id, arg.id).returned :
                                        k \in BallisticKinds},
                             rows, FALSE))
      [] route.op = "rifle_summary" ->
            IF arg.id = 0 THEN Invalid(user_id)
            ELSE ViewModel(user_id, service_rifle_summary(user_id, arg.id))
      [] route.op = "health" -> Done(StatusOk, MsgNone, TRUE, 0, {}, rows, FALSE)

\* one request to an endpoint: the decorators, then the view function
Endpoint(route, token, arg) ==
    IF route.protected /\ jwt_required(token) # MsgNone
    THEN Done(StatusUnauthorized, jwt_required(token), FALSE, 0, {}, rows, FALSE)
    ELSE Handle(route, get_jwt_identity(token), arg)

request(route, token, arg) ==
    \E d \in {Endpoint(route, token, arg)} :
        /\ d.inserted => nextRowId <= MaxRows
        /\ rows' = d.table
        /\ nextRowId' = IF d.inserted THEN nextRowId + 1 ELSE nextRowId
        /\ UNCHANGED <<wallet, authVars>>

----------------------------------------------------------------------------
(* The protected API: a password account is opened at minute 0, a Google     *)
(* account after it, at minute 0 or a day later; then clients send requests  *)
(* with the tokens they were given, with none, or with tokens of their own   *)
(* making                                                                    *)

ApiInstants == {0, JWT_ACCESS_TOKEN_EXPIRES_HOURS * MINUTES_PER_HOUR}

ForgedTokens ==
    {[type |-> "access", sub |-> u.id, signed |-> FALSE,
      exp |-> JWT_REFRESH_TOKEN_EXPIRES_DAYS * HOURS_PER_DAY * MINUTES_PER_HOUR] : u \in users}

Presented == wallet \cup ForgedTokens \cup {NoJwt}

RowIds == 0..MaxRows
Notes == {"n1", "n2"}

\* the ids and the notes a request to the route can carry; a part the view
\* function does not read is left at 0 or at the first note
ArgsOf(route) ==
    LET Some(ids, refs, notes) == [id : ids, ref : refs, notes : notes]
    IN  CASE route.op \in {"list", "summary", "health"} -> Some({0}, {0}, {"n1"})
          [] route.op \in {"query", "get", "delete", "complete", "rifle_summary", "all_data"} ->
                Some(RowIds, {0}, {"n1"})
          [] route.op \in {"create", "calculate"} -> Some({0}, RowIds, Notes)
          [] route.op = "update" -> Some(RowIds, {0}, Notes)
          [] route.op = "set_active" -> Some({0}, RowIds, {"n1"})
          [] route.op = "associate" -> Some(RowIds, RowIds, {"n1"})

\* the notes the explored requests carry: a row is created with the first note
\* and updated to the second
Explored(route) ==
    {a \in ArgsOf(route) : a.notes = (IF route.op = "update" THEN "n2" ELSE "n1")}

ApiSignup ==
    /\ users = {} /\ now = 0
    /\ Idle /\ signup_begin(NameOk, EmailA, PwOne)
    /\ UNCHANGED apiVars
ApiSignupCommit ==
    /\ \E p \in pending, s \in Salts : signup_commit(p, s)
    /\ wallet' = wallet \cup last'.jwts
    /\ UNCHANGED <<rows, nextRowId>>
ApiGoogleSignin ==
    /\ Cardinality(users) = 1
    /\ Idle /\ \E g \in {t \in GoogleTokens : t.sub = "g1"} : google_begin(g)
    /\ wallet' = wallet \cup last'.jwts
    /\ UNCHANGED <<rows, nextRowId>>
ApiGoogleCommit ==
    /\ \E p \in pending : google_commit(p)
    /\ wallet' = wallet \cup last'.jwts
    /\ UNCHANGED <<rows, nextRowId>>
ApiRequest ==
    /\ Idle /\ users # {}
    /\ \E route \in Routes, token \in Presented :
          \E arg \in Explored(route) : request(route, token, arg)
ApiClock ==
    /\ Idle /\ \E t \in ApiInstants : Tick(ApiInstants, t)
    /\ UNCHANGED apiVars

NextApi ==
    \/ ApiSignup
    \/ ApiSignupCommit
    \/ ApiGoogleSignin
    \/ ApiGoogleCommit
    \/ ApiRequest
    \/ ApiClock

SpecApi == Init /\ [][NextApi]_vars

----------------------------------------------------------------------------
(* GET /api/auth/me, POST /api/auth/refresh, POST /api/auth/logout *)

MsgUserRetrieved == "User retrieved successfully"
MsgRefreshed == "Token refreshed successfully"
MsgLoggedOut == "Logged out successfully"

\* User.find_by_id
find_user_by_id(user_id) == First({u \in users : u.id = user_id}, NoUser)

\* AuthViewModel.handle_get_current_user and AuthService.get_current_user
get_current_user(user_id) ==
    LET user == find_user_by_id(user_id) IN
    IF user = NoUser THEN Response("me", StatusError, MsgUserNotFound, 0, {})
    ELSE IF ~ user.is_active THEN Response("me", StatusError, MsgDisabled, 0, {})
    ELSE Response("me", StatusOk, MsgUserRetrieved, user.id, {})

\* the view function get_current_user with its decorator
get_current_user_endpoint(token) ==
    IF jwt_required(token) # MsgNone
    THEN Response("me", StatusUnauthorized, jwt_required(token), 0, {})
    ELSE get_current_user(get_jwt_identity(token))

\* variant: any signed, unexpired token of the server is taken
jwt_refresh_required_any(token) ==
    IF token = NoJwt THEN MsgJwtMissing
    ELSE IF ~ token.signed THEN MsgJwtInvalid
    ELSE IF token.exp <= now THEN MsgJwtExpired
    ELSE MsgNone

\* @jwt_required(refresh=True) with the loaders of create_app
jwt_refresh_required(token) ==
    IF token = NoJwt THEN MsgJwtMissing
    ELSE IF ~ token.signed THEN MsgJwtInvalid
    ELSE IF token.exp <= now THEN MsgJwtExpired
    ELSE IF token.type # "refresh" THEN MsgJwtInvalid
    ELSE MsgNone

\* JWTUtils.refresh_access_token
refresh_access_token(user_id) == {create_access_token(user_id)}

\* AuthViewModel.handle_refresh_token
handle_refresh_token(user_id) ==
    Response("refresh", StatusOk, MsgRefreshed, user_id, refresh_access_token(user_id))

\* the view function refresh with its decorator
refresh_endpoint(token) ==
    IF jwt_refresh_required(token) # MsgNone
    THEN Response("refresh", StatusUnauthorized, jwt_refresh_required(token), 0, {})
    ELSE handle_refresh_token(get_jwt_identity(token))

\* variant: logging out removes what the user stored
logout_purging(user_id) ==
    Done(StatusOk, MsgLoggedOut, TRUE, user_id, {}, {r \in rows : r.user_id # user_id}, FALSE)

\* the body of the view function logout: the reply and the tables it leaves;
\* user_id records whose token the request carried, the body does not read it
logout(user_id) == Done(StatusOk, MsgLoggedOut, TRUE, user_id, {}, rows, FALSE)

\* the view function logout with its decorator
logout_endpoint(token) ==
    IF jwt_required(token) # MsgNone
    THEN Done(StatusUnauthorized, jwt_required(token), FALSE, 0, {}, rows, FALSE)
    ELSE logout(get_jwt_identity(token))

me_request(token) ==
    /\ last' = get_current_user_endpoint(token)
    /\ UNCHANGED <<users, reset_tokens, now, nextUserId, nextTokenId, pending, origin, uses,
                   pwLog, apiVars>>

refresh_request(token) ==
    /\ last' = refresh_endpoint(token)
    /\ wallet' = wallet \cup last'.jwts
    /\ UNCHANGED <<users, reset_tokens, now, nextUserId, nextTokenId, pending, origin, uses,
                   pwLog, rows, nextRowId>>

logout_request(token) ==
    \E d \in {logout_endpoint(token)} :
        /\ rows' = d.table
        /\ last' = Response("logout", d.status, d.msg, d.user_id, {})
        /\ UNCHANGED <<users, reset_tokens, now, nextUserId, nextTokenId, pending, origin,
                       uses, pwLog, nextRowId, wallet>>

----------------------------------------------------------------------------
(* Sessions: the two accounts sign in at minute 0 and store rifles; tokens   *)
(* are refreshed, users log out, and time passes to the expiry of the access *)
(* tokens (a day) and of the refresh tokens (thirty days)                    *)

SessionInstants ==
    {0, JWT_ACCESS_TOKEN_EXPIRES_HOURS * MINUTES_PER_HOUR,
     JWT_REFRESH_TOKEN_EXPIRES_DAYS * HOURS_PER_DAY * MINUTES_PER_HOUR}

\* the loadout request that fills the tables here
SessionRoutes == {r \in LoadoutRoutes : r.fn = "create_rifle"}

SessionGoogleSignin ==
    /\ now = 0 /\ ApiGoogleSignin
SessionStore ==
    /\ Idle
    /\ \E route \in SessionRoutes, token \in {t \in wallet : t.type = "access"} :
          \E arg \in Explored(route) : request(route, token, arg)
GetCurrentUser ==
    /\ Idle /\ users # {} /\ \E token \in wallet \cup {NoJwt} : me_request(token)
Refresh ==
    /\ Idle /\ users # {} /\ \E token \in wallet \cup {NoJwt} : refresh_request(token)
Logout ==
    /\ Idle /\ users # {} /\ \E token \in wallet \cup {NoJwt} : logout_request(token)
SessionClock ==
    /\ Idle /\ users # {} /\ \E t \in SessionInstants : Tick(SessionInstants, t)
    /\ UNCHANGED apiVars

NextSession ==
    \/ ApiSignup
    \/ ApiSignupCommit
    \/ SessionGoogleSignin
    \/ ApiGoogleCommit
    \/ SessionStore
    \/ GetCurrentUser
    \/ Refresh
    \/ Logout
    \/ SessionClock

SpecSession == Init /\ [][NextSession]_vars

----------------------------------------------------------------------------
(* POST /api/ballistic/calculations with the fields of its body *)

\* the view function calculate_ballistics with its decorator
calculate_ballistics(token, arg, data) ==
    IF jwt_required(token) # MsgNone
    THEN Done(StatusUnauthorized, jwt_required(token), FALSE, 0, {}, rows, FALSE)
    ELSE handle_calculate_ballistics(get_jwt_identity(token), arg, data)

calculate_request(token, arg, data) ==
    \E d \in {calculate_ballistics(token, arg, data)} :
        /\ d.inserted => nextRowId <= MaxRows
        /\ rows' = d.table
        /\ nextRowId' = IF d.inserted THEN nextRowId + 1 ELSE nextRowId
        /\ UNCHANGED <<wallet, authVars>>

----------------------------------------------------------------------------
(* Calculations: the accounts store rifles, post calculations whose numbers  *)
(* are whole or fractional, present or missing, and delete them              *)

Trajectories == {<<>>, <<[distance |-> 1000, drop |-> 0 - 25]>>}

CalculationRequests ==
    [ballisticCoefficient : {Number(5)},
     muzzleVelocity : {Number(27505)},
     targetDistance : {Number(1000), Number(1004), Number(1005), Null},
     windSpeed : {Number(105), Null},
     windDirection : {Number(900)},
     trajectoryData : {Json(t) : t \in Trajectories}]

CalculationRoute == CHOOSE r \in BallisticRoutes : r.fn = "calculate_ballistics"

\* the requests that fill and empty the tables here beside the calculations
CalculationRoutes ==
    {r \in Routes : r.fn \in {"create_rifle", "delete_ballistic_calculation"}}

CalcStore ==
    /\ Idle
    /\ \E route \in CalculationRoutes, token \in {t \in wallet : t.type = "access"} :
          \E arg \in Explored(route) : request(route, token, arg)
Calculate ==
    /\ Idle
    /\ \E token \in {t \in wallet : t.type = "access"}, arg \in ArgsOf(CalculationRoute),
          data \in CalculationRequests : calculate_request(token, arg, data)

NextCalc ==
    \/ ApiSignup
    \/ ApiSignupCommit
    \/ ApiGoogleSignin
    \/ ApiGoogleCommit
    \/ CalcStore
    \/ Calculate
    \/ ApiClock

SpecCalc == Init /\ [][NextCalc]_vars

----------------------------------------------------------------------------
(* Vocabulary of the properties *)

\* two addresses that differ at most in letter case and surrounding whitespace
SameAddress(a, b) ==
    LET x == Strip(a)
        y == Strip(b)
    IN  /\ Len(x) = Len(y)
        /\ \A i \in 1..Len(x) : LowerChar(x[i]) = LowerChar(y[i])

Owner(row) == First({u \in users : u.id = row.user_id}, NoUser)

\* a step in which token row i authorised a successful verify_otp
VerifyStep(i) ==
    /\ i \in DOMAIN uses
    /\ Len(uses') = Len(uses) + 1
    /\ uses'[i] = uses[i] + 1

\* a step in which token row i authorised a successful reset_password
ResetStep(i) ==
    /\ i \in DOMAIN uses
    /\ Len(uses') = Len(uses)
    /\ uses'[i] = uses[i] + 1

----------------------------------------------------------------------------
(* C1 *)

\* a token the server issued as an access token and that has not expired
Genuine(token) == token \in wallet /\ token.type = "access" /\ now < token.exp

----------------------------------------------------------------------------
(* C2 *)

\* C2: the two /health endpoints are the only ones open to everybody. At every
\* other loadout or ballistic endpoint a request without a token, or with one
\* that is forged, a refresh token or expired, is answered 401, its view
\* function does not run and no row changes; a request with a good access
\* token runs for the user id in the token.
C2_EndpointsRequireAccessToken ==
    /\ {route.fn : route \in {r \in Routes : ~ r.protected}}
          = {"loadout_health", "ballistic_health"}
    /\ \A route \in Routes, token \in Presented :
          route.op # "health" =>
              \A arg \in ArgsOf(route) :
                  \A d \in {Endpoint(route, token, arg)} :
                      IF Genuine(token)
                      THEN d.ran /\ d.user_id = token.sub /\ d.status # StatusUnauthorized
                      ELSE /\ d.status = StatusUnauthorized
                           /\ ~ d.ran
                           /\ d.table = rows
                           /\ d.returned = {}

\* rows exist, a token the server issued has expired, and a request with it
\* for a rifle of its own user is answered "Token has expired"
C2_Witness ==
    \E token \in wallet, rifle \in rows, route \in Routes :
        /\ token.type = "access" /\ token.exp <= now
        /\ rifle.kind = "rifle" /\ rifle.user_id = token.sub
        /\ route.fn = "get_rifle"
        /\ Endpoint(route, token, [id |-> rifle.id, ref |-> 0, notes |-> "n1"]).msg
              = MsgJwtExpired
        /\ \E other \in wallet : Genuine(other)

----------------------------------------------------------------------------
(* C3 *)

\* C3: a password is reset only with a token row that an earlier successful
\* verify_otp issued for the same user; a row issued by forgot_password (an
\* OTP) never authorises reset_password.
C3_ResetOnlyWithVerifiedToken ==
    [][\A r \in reset_tokens :
          ResetStep(r.id) =>
              /\ origin[r.id].kind = "reset"
              /\ \A u \in users : u \notin users' => u.id = origin[r.id].user_id]_vars

----------------------------------------------------------------------------
(* C4 *)

\* C4: single use. Every token row authorises at most one successful
\* operation, and while a used row is in the table a verify_otp with its code
\* answers "Invalid or expired OTP" and a reset_password with its token
\* answers "Invalid or expired reset token".
C4_TokensAreSingleUse ==
    /\ \A i \in DOMAIN uses : uses[i] <= 1
    /\ \A r \in reset_tokens :
          r.used =>
              /\ validate_otp(r.token) = MsgNone =>
                    \A t \in ResetTokenSpace :
                        verify_otp(Owner(r).email, r.token, t).msg = MsgBadOtp
              /\ \A s \in Salts :
                    reset_password(Owner(r).email, r.token, PwTwo, s).msg = MsgBadResetToken

\* an OTP and the reset token it bought have both been spent and are still there
C4_Witness ==
    \E a, b \in reset_tokens :
        /\ a.used /\ origin[a.id].kind = "otp" /\ uses[a.id] = 1
        /\ b.used /\ origin[b.id].kind = "reset" /\ uses[b.id] = 1

----------------------------------------------------------------------------
(* C5 *)

\* C5: no verify_otp succeeds with an OTP row at or after the minute the row
\* was created plus 10.
C5_OtpExpiresAfterTenMinutes ==
    [][\A r \in reset_tokens :
          VerifyStep(r.id) => now < r.created_at + OTP_EXPIRY_MINUTES]_vars

\* an unused code is presented exactly ten minutes after its issue and refused
C5_Witness ==
    \E r \in reset_tokens :
        /\ origin[r.id].kind = "otp" /\ ~ r.used
        /\ now = r.created_at + OTP_EXPIRY_MINUTES
        /\ \A t \in ResetTokenSpace : verify_otp(Owner(r).email, r.token, t).msg = MsgBadOtp

----------------------------------------------------------------------------
(* C6 *)

\* C6: at or after the minute a reset token was created plus 60, no
\* reset_password with it succeeds or changes any account.
C6_ResetTokenExpiresAfterOneHour ==
    \A r \in reset_tokens :
        (/\ origin[r.id].kind = "reset"
         /\ now >= r.created_at + PASSWORD_RESET_EXPIRY_HOURS * MINUTES_PER_HOUR)
        => \A e \in ResetEmails, p \in NewPasswords, s \in Salts :
              /\ ~ reset_password(e, r.token, p, s).ok
              /\ reset_password(e, r.token, p, s).accounts = users

\* an unused reset token is presented exactly one hour after its issue and refused
C6_Witness ==
    \E r \in reset_tokens :
        /\ origin[r.id].kind = "reset" /\ ~ r.used
        /\ now = r.created_at + PASSWORD_RESET_EXPIRY_HOURS * MINUTES_PER_HOUR
        /\ \A s \in Salts :
              reset_password(Owner(r).email, r.token, PwTwo, s).msg = MsgBadResetToken

----------------------------------------------------------------------------
(* C7 *)

\* C7: forgot_password answers the same (success flag, message) for a valid
\* address without an account as for a valid address of an active account to
\* which the code is mailed.
C7_ForgotPasswordHidesAccounts ==
    \A e1, e2 \in ResetEmails, o \in OtpSpace :
        (/\ find_by_email(e1) = NoUser
         /\ find_by_email(e2) # NoUser /\ find_by_email(e2).is_active
         /\ forgot_password(e2, o, TRUE).inserted)
        => /\ forgot_password(e1, o, TRUE).ok = forgot_password(e2, o, TRUE).ok
           /\ forgot_password(e1, o, TRUE).msg = forgot_password(e2, o, TRUE).msg

----------------------------------------------------------------------------
(* C8 *)

\* C8: login_user succeeds only for an address that matches, up to letter
\* case, an active account whose current password is the one presented; an
\* account without a password hash is refused whatever the password.
C8_LoginOnlyWithMatchingPassword ==
    /\ \A e \in EmailInputs, p \in PasswordInputs :
          login_user(e, p).ok =>
              \E u \in users :
                  /\ SameAddress(u.email, e)
                  /\ u.is_active
                  /\ u.password_hash # NoHash
                  /\ pwLog[u.id].current = p
                  /\ login_user(e, p).row = u.id
    /\ \A u \in users :
          u.password_hash = NoHash =>
              \A e \in EmailInputs, p \in PasswordInputs :
                  SameAddress(u.email, e) => ~ login_user(e, p).ok
    /\ (last.op = "login" /\ last.ok) =>
          \E u \in users : u.id = last.row /\ u.is_active /\ u.password_hash # NoHash

\* a login has just succeeded while a Google-created account without a hash exists
C8_Witness ==
    /\ last.op = "login" /\ last.ok
    /\ \E u \in users : u.password_hash = NoHash /\ u.google_id # NoGoogleId

----------------------------------------------------------------------------
(* C9 *)

WellFormedSignup(n, p) ==
    validate_full_name(Strip(n)) = MsgNone /\ validate_password(p) = MsgNone

----------------------------------------------------------------------------
(* C10 *)

\* C10: once reset_password has set an account's password, login_user with the
\* account's address and that password succeeds, and with the previous
\* password (if any, and different) answers "Incorrect password"; Google-created
\* accounts included.
C10_LoginFollowsReset ==
    \A u \in users :
        pwLog[u.id].byReset =>
            /\ login_user(u.email, pwLog[u.id].current).ok
            /\ login_user(u.email, pwLog[u.id].current).row = u.id
            /\ (pwLog[u.id].previous # <<>> /\ pwLog[u.id].previous # pwLog[u.id].current)
               => login_user(u.email, pwLog[u.id].previous).msg = MsgBadPassword

\* a password account and a Google-created account have both been reset
C10_Witness ==
    /\ \E u \in users :
          /\ u.google_id = NoGoogleId /\ pwLog[u.id].byReset
          /\ pwLog[u.id].previous = PwOne /\ pwLog[u.id].current = PwTwo
    /\ \E u \in users :
          /\ u.google_id # NoGoogleId /\ pwLog[u.id].byReset
          /\ pwLog[u.id].previous = <<>>

----------------------------------------------------------------------------
(* C11 *)

\* the endpoints protected for access tokens accept the token: the view
\* function runs and the answer is not a 401
AcceptedEverywhere(token) ==
    /\ \A route \in {r \in Routes : r.protected} :
          \A arg \in ArgsOf(route) :
              /\ Endpoint(route, token, arg).ran
              /\ Endpoint(route, token, arg).status # StatusUnauthorized
    /\ get_current_user_endpoint(token).status # StatusUnauthorized
    /\ logout_endpoint(token).status = StatusOk

\* C11: a logout request changes no account, no reset token and no stored
\* row; and after a successful logout, every access token the server issued
\* (the one that logged out included) is accepted by every protected endpoint
\* for as long as it has not expired.
C11_LogoutIsStateless ==
    /\ [][(last'.op = "logout" /\ last' # last) =>
              /\ users' = users /\ reset_tokens' = reset_tokens /\ rows' = rows
              /\ <<nextUserId, nextTokenId, nextRowId>>' = <<nextUserId, nextTokenId, nextRowId>>]_vars
    /\ []((last.op = "logout" /\ last.ok) =>
              \A token \in wallet :
                  (token.type = "access" /\ now < token.exp) => AcceptedEverywhere(token))

\* a user who owns a rifle has logged out, and the token of that logout still
\* reads the rifle
C11_Witness ==
    /\ last.op = "logout" /\ last.ok
    /\ \E token \in wallet, rifle \in rows, route \in Routes :
          /\ Genuine(token) /\ token.sub = last.row
          /\ rifle.kind = "rifle" /\ rifle.user_id = last.row
          /\ route.fn = "get_rifle"
          /\ Endpoint(route, token, [id |-> rifle.id, ref |-> 0, notes |-> "n1"]).status
                = StatusOk

----------------------------------------------------------------------------
(* C12 *)

\* C12: /refresh answers 200 exactly to an unexpired refresh token the server
\* issued; its answer then carries one token, an access token for the identity
\* of the refresh token, and otherwise it is a 401 without tokens (for an
\* access token: "Invalid token"). A refresh token is answered 401 by every
\* endpoint protected for access tokens.
C12_TokenKindsAreNotInterchangeable ==
    \A token \in Presented :
        /\ refresh_endpoint(token).ok <=>
              (token \in wallet /\ token.type = "refresh" /\ now < token.exp)
        /\ refresh_endpoint(token).ok =>
              /\ Cardinality(refresh_endpoint(token).jwts) = 1
              /\ \A t \in refresh_endpoint(token).jwts :
                    t.type = "access" /\ t.sub = token.sub /\ t.signed
        /\ ~ refresh_endpoint(token).ok =>
              /\ refresh_endpoint(token).status = StatusUnauthorized
              /\ refresh_endpoint(token).jwts = {}
        /\ Genuine(token) => refresh_endpoint(token).msg = MsgJwtInvalid
        /\ (token \in wallet /\ token.type = "refresh") =>
              /\ \A route \in {r \in Routes : r.protected} :
                    \A arg \in ArgsOf(route) :
                        \A d \in {Endpoint(route, token, arg)} :
                            d.status = StatusUnauthorized /\ ~ d.ran
              /\ get_current_user_endpoint(token).status = StatusUnauthorized
              /\ logout_endpoint(token).status = StatusUnauthorized

\* a day after sign-in the refresh token has bought a new access token, the
\* first access token has expired, and the new one is refused by /refresh
C12_Witness ==
    /\ last.op = "refresh" /\ last.ok
    /\ \E old \in wallet, new \in last.jwts :
          /\ old.type = "access" /\ old.sub = last.row /\ old.exp <= now
          /\ new \in wallet /\ Genuine(new) /\ new.sub = last.row
          /\ refresh_endpoint(new).msg = MsgJwtInvalid
    /\ \E token \in wallet :
          /\ token.type = "refresh" /\ token.sub = last.row
          /\ get_current_user_endpoint(token).msg = MsgJwtInvalid

----------------------------------------------------------------------------
(* C13 *)

\* the answers of POST /calculations that created a row, with the body sent
Created ==
    {[data |-> data, done |-> calculate_ballistics(token, arg, data)] :
        token \in wallet, arg \in ArgsOf(CalculationRoute), data \in CalculationRequests}

ReadRoute == CHOOSE r \in BallisticRoutes : r.fn = "get_ballistic_calculations"

====
